---- MODULE Spec2Model ----
(***************************************************************************)
(* Lifecycle, teardown and event dispatch of curatorFramework              *)
(* (package curator, framework.go).  Threads call Start, Close and the     *)
(* builder factories of one facade concurrently; every access to shared    *)
(* state (the CAS on c.state, a container call, a component call) is one   *)
(* step.                                                                   *)
(***************************************************************************)
EXTENDS Integers, Sequences, FiniteSets, TLC

\* ---------------------------------------------------------------- bounds
NumThreads == 2
NumListeners == 2
NumRawEvents == 1
MaxCount == 2
MaxFacades == 3
MaxWrites == 1
QueueSize == 2
MaxPosts == 3
MaxWait == 1
MaxBackground == 1
MaxVersion == 2

Threads == 1..NumThreads
CuratorListeners == 1..NumListeners
ErrorListeners == {"u1"}
StateListeners == {"k1"}
RawEvents == 1..NumRawEvents

\* ------------------------------------------------------- State (iota)
LATENT == 0
STARTED == 1
STOPPED == 2

\* CuratorEventType values used by the facade itself
WATCHED == "WATCHED"
CLOSING == "CLOSING"

BuilderMethods ==
    {"Create", "Delete", "CheckExists", "GetData", "SetData", "GetChildren",
     "GetACL", "SetACL", "InTransaction", "Sync"}
FacadeMethods == {"UsingNamespace", "NonNamespaceView"}
FactoryMethods == BuilderMethods \cup {"DoSync"} \cup FacadeMethods

\* A namespace and a path are sequences of node names; "" and "/" are <<>>
NoNamespace == <<>>
\* CuratorFrameworkBuilder.Namespace, as given to Build
RootNamespaces == {NoNamespace, <<"app">>}
\* newNamespace, as given to UsingNamespace
Namespaces == {NoNamespace, <<"ns">>}
AllNamespaces == RootNamespaces \cup Namespaces
\* The paths given to operations
Paths == {<<>>, <<"a">>, <<"a", "b">>, <<"ns", "a">>, <<"app">>}
\* The data of a node
\* NewExponentialBackoffRetry(time.Second, 3, 15*time.Second),
\* examples/base/main.go line 21: the base sleep and the longest sleep in
\* seconds, and the bound on the attempts
BaseSleep == 1
MaxAttempts == 3
MaxSleep == 15

\* The errors of the raw client: transport and session errors, and
\* operational errors
Retriable == {"connection loss", "operation timeout", "session moved"}
Terminal == {"bad path", "version mismatch", "no-node", "no-auth",
             "node-exists"}
AttemptOutcomes == {"nil"} \cup Retriable \cup Terminal

\* One outcome of each kind: a result, a retriable and a non-retriable error
OutcomeKinds == {"nil", "connection loss", "no-node"}

\* version: -1 of the builders the facade returns, lines 257, 275 and 293:
\* any version of the node
AnyVersion == -1
Versions == 0..MaxVersion
MutatingOps == {"Delete", "SetData", "SetACL"}
Acls == {"open", "creator"}

\* The opaque values a caller passes as background context
Contexts == {"ctx1", "ctx2"}
SYNC == "SYNC"

Data == {"d1", "d2"}
NoData == "none"

\* What a run watches.  The program's own variables never read it; each
\* history variable is written only in the runs that watch its aspect.
Aspects == {"lifecycle", "closeResult", "factories"}

VARIABLES
    observe,                 \* the aspect this run records
    state,                   \* c.state
    smRunning,               \* c.stateManager is started and not closed
    clientRunning,           \* c.client is started and not closed
    listeners,               \* c.listeners, in insertion order
    unhandledErrorListeners, \* c.unhandledErrorListeners, in insertion order
    connListeners,           \* c.stateManager.listeners, in insertion order
    pc,                      \* position of each thread inside its call
    snap,                    \* ForEach's snapshot held by a thread
    idx,                     \* next index of that snapshot to visit
    smStartCalls,            \* history: calls of c.stateManager.Start()
    clientStartCalls,        \* history: calls of c.client.Start()
    teardownLog,             \* history: steps performed by Close, in order
    broadcastSnap,           \* history: the listeners ForEach began with
    closeOutcomes,           \* history: what the two Close calls of the
                             \*   components returned
    lastRet,                 \* history: the last return of Start or Close
    lastCall,                \* history: the last builder-factory call
    execStates,              \* history: c.state seen while a builder executed
    handed,                  \* history: raw events handed to the watcher
                             \*   while c.state was STARTED
    owed,                    \* history: <<listener, raw event>> for each
                             \*   listener registered when it was handed
    watchedDelivered,        \* history: <<listener, raw event>> deliveries
    listenerErrors,          \* history: <<listener, c.unhandledErrorListeners>>
                             \*   for each error a listener returned on Closing
    unhandledDelivered,      \* history: <<error listener, listener>> forwards
    passSnap,                \* history: the container when Close's ForEach began
    visited,                 \* history: the listeners that pass called, in order
    changed,                 \* history: while the pass was under way,
                             \*   <<"add", l>> for a listener added that the
                             \*   pass did not begin with, <<"remove", l>> for
                             \*   one removed that it had yet to call
    namespace,               \* c.namespace
    facades,                 \* the facades constructed so far: facade i views
                             \*   the tree under the namespace facades[i]
    facadeCache,             \* c.namespaceFacadeCache: namespace -> facade, 0
                             \*   where it holds none
    nsArg,                   \* the call a thread is inside UsingNamespace with
    got,                     \* history: <<method called, namespace asked for,
                             \*   facade returned, held by the cache before>>
    tree,                    \* the server's tree: server path -> data, NoData
                             \*   where there is no node
    writes,                  \* the writes made so far
    lastWrite,               \* history: the last write, as the caller made it
    lastRead,                \* history: the last read since, as the caller
                             \*   made it, and the data it returned
    lastEvent,               \* history: the last Watched event: the view and
                             \*   path the watch was set with, the path the
                             \*   event carries
    connState,               \* the state manager's current ConnectionState
    everConnected,           \* the first handshake has succeeded
    queue,                   \* the state manager's queue of undelivered
                             \*   states, each with the number of its post
    posts,                   \* the states posted so far
    missed,                  \* the "state missed" condition has been surfaced
    wait,                    \* the BlockUntilConnected call a thread is in
    deliveries,              \* history: the states the delivery loop took off
                             \*   the queue, in order
    dropped,                 \* history: the posts dropped from a full queue
    trail,                   \* history: <<raw event, ConnectionState it led
                             \*   to>> for each transition
    lastWait,                \* history: the last return of a BlockUntilConnected
    calls,                   \* the RunWithRetry a thread is blocked in, or
                             \*   the last one it returned from
    startFailed,             \* history: the component whose failure a Start
                             \*   returned, and c.state at that return
    closedLatent,            \* history: what a Close called on a facade
                             \*   never started returned
    znode,                   \* a node of the server: whether it exists, its
                             \*   data, ACL and version
    lastMutation,            \* history: the last Delete, SetData or SetACL:
                             \*   the version asked for, the node before
                             \*   and after it, and the result
    tasks                    \* the background operations launched so far,
                             \*   each with the context the caller gave, the
                             \*   context its builder holds, what ForPath
                             \*   returned, its RunWithRetry, the event
                             \*   dispatched and the listeners called with it

vars == <<observe, state, smRunning, clientRunning, listeners, unhandledErrorListeners,
          connListeners, pc, snap, idx, smStartCalls, clientStartCalls,
          teardownLog, broadcastSnap, closeOutcomes, lastRet, lastCall,
          execStates, handed, owed, watchedDelivered, listenerErrors,
          unhandledDelivered, passSnap, visited, changed,
          namespace, facades, facadeCache, nsArg, got,
          tree, writes, lastWrite, lastRead, lastEvent,
          connState, everConnected, queue, posts, missed, wait,
          deliveries, dropped, trail, lastWait, calls, tasks,
          startFailed, closedLatent, znode, lastMutation>>

shared == <<observe, state, smRunning, clientRunning>>
containers == <<listeners, unhandledErrorListeners, connListeners>>
locals == <<pc, snap, idx>>
startHist == <<smStartCalls, clientStartCalls>>
closeHist == <<teardownLog, broadcastSnap, closeOutcomes>>
eventHist == <<handed, owed, watchedDelivered, listenerErrors,
               unhandledDelivered>>
passHist == <<passSnap, visited, changed>>
edgeHist == <<startFailed, closedLatent>>
frameworkHist == <<startHist, closeHist, lastRet, lastCall, execStates,
                   eventHist, passHist, edgeHist>>
cacheVars == <<facades, facadeCache, nsArg, got>>
nsVars == <<namespace, cacheVars>>
pathVars == <<tree, writes, lastWrite, lastRead, lastEvent>>
connVars == <<connState, everConnected, queue, posts, missed, wait,
              deliveries, dropped, trail, lastWait>>
retryVars == <<calls, tasks>>
versionVars == <<znode, lastMutation>>
other == <<nsVars, pathVars, connVars, retryVars, versionVars, edgeHist>>

\* ------------------------------------------------------------- helpers
Bump(n) == IF n < MaxCount THEN n + 1 ELSE n

Range(s) == {s[i] : i \in 1..Len(s)}

NoRet == [op |-> "none", won |-> FALSE, val |-> "none"]
NoOutcomes == [sm |-> "none", client |-> "none"]
NoCall == [st |-> LATENT, result |-> "none"]

\* The new value of a history variable of aspect a
Rec(a, new, old) == IF observe = a THEN new ELSE old

NoArg == [api |-> "none", newNamespace |-> NoNamespace]
NoView == [root |-> FALSE, ns |-> <<"none">>]
NoWait == [api |-> "none", maxWaitTime |-> 0, left |-> 0]
NoWaitReturn == [api |-> "none", maxWaitTime |-> 0, left |-> 0,
                 result |-> "none", conn |-> "none"]
NoOp == [view |-> NoView, path |-> <<>>, data |-> NoData]
NoEvent == [view |-> NoView, path |-> <<>>, seen |-> <<>>]

\* A RunWithRetry that has not begun: the attempts made, the sleeps taken
\* between them, the last error seen and what was returned
NoResult == [err |-> "none", attempts |-> 0, exhausted |-> FALSE]
NoRun == [phase |-> "none", attempt |-> 0, sleeps |-> <<>>, err |-> "none",
          ret |-> NoResult]
NoContext == "none"
NoFailure == [component |-> "none", st |-> LATENT]
NoNode == [exists |-> FALSE, data |-> NoData, acl |-> "none", version |-> 0]
NoMutation == [op |-> "none", explicit |-> FALSE, version |-> 0,
               before |-> NoNode, after |-> NoNode, result |-> "none"]
NoCuratorEvent == [type |-> "none", context |-> NoContext, err |-> "none"]

\* The paths of the server's tree that the operations can address
ServerPaths == {IF ns = NoNamespace THEN p ELSE ns \o p :
                    ns \in AllNamespaces, p \in Paths}

\* newCuratorFramework, lines 180-205: the facade built with b.Namespace = ns
Constructed(ns) ==
    /\ state = LATENT
    /\ smRunning = FALSE
    /\ clientRunning = FALSE
    /\ listeners = <<>>
    /\ unhandledErrorListeners = <<>>
    /\ connListeners = <<>>
    /\ pc = [t \in Threads |-> "idle"]
    /\ snap = [t \in Threads |-> <<>>]
    /\ idx = [t \in Threads |-> 0]
    /\ smStartCalls = 0
    /\ clientStartCalls = 0
    /\ teardownLog = <<>>
    /\ broadcastSnap = <<>>
    /\ closeOutcomes = NoOutcomes
    /\ lastRet = NoRet
    /\ lastCall = NoCall
    /\ execStates = {}
    /\ handed = {}
    /\ owed = {}
    /\ watchedDelivered = {}
    /\ listenerErrors = {}
    /\ unhandledDelivered = {}
    /\ passSnap = <<>>
    /\ visited = <<>>
    /\ changed = {}
    /\ namespace = ns
    /\ facades = <<>>
    /\ facadeCache = [n \in AllNamespaces |-> 0]
    /\ nsArg = [t \in Threads |-> NoArg]
    /\ got = {}
    /\ tree = [sp \in ServerPaths |-> NoData]
    /\ writes = 0
    /\ lastWrite = NoOp
    /\ lastRead = NoOp
    /\ lastEvent = NoEvent
    /\ connState = "none"
    /\ everConnected = FALSE
    /\ queue = <<>>
    /\ posts = 0
    /\ missed = FALSE
    /\ wait = [t \in Threads |-> NoWait]
    /\ deliveries = <<>>
    /\ dropped = {}
    /\ trail = <<>>
    /\ lastWait = NoWaitReturn
    /\ calls = [t \in Threads |-> NoRun]
    /\ tasks = <<>>
    /\ startFailed = NoFailure
    /\ closedLatent = "none"
    /\ znode = NoNode
    /\ lastMutation = NoMutation

Init == observe \in Aspects /\ Constructed(NoNamespace)

\* ------------------------------------------------- State.Change / Check
\* A compare-and-swap that never compares.
ChangeNoCompare(cur, oldState, newState) == [ok |-> TRUE, val |-> newState]

\* atomic.CompareAndSwapInt32: the swap happens only from oldState
Change(cur, oldState, newState) ==
    IF cur = oldState THEN [ok |-> TRUE, val |-> newState]
                      ELSE [ok |-> FALSE, val |-> cur]

\* A check that only rejects a facade that was never started.
CheckNotLatent(s, want) == s # LATENT

\* State.Check: TRUE when the call goes on, FALSE when it panics.  The
\* receiver is a copy of c.state read without atomics: it holds the value
\* before or after a concurrent swap, as the step's place in the interleaving.
Check(s, want) == s = want

\* A step of Close recorded in the history: the step and the listener it
\* called
Log(step, who) ==
    Rec("teardown", Append(teardownLog, <<step, who>>), teardownLog)

\* The failure of a component that a Start returns, recorded in the history
\* with c.state as the return finds it
Failed(component) ==
    Rec("edges", [component |-> component, st |-> state], startFailed)

\* The return of Start or Close recorded in the history
Ret(as, op, won, val) ==
    IF observe \in as THEN [op |-> op, won |-> won, val |-> val] ELSE lastRet

Outcome(err) == IF err THEN "err" ELSE "nil"

\* ------------------------------------------------ listener containers
\* ForEach walks a copy of the container taken when it is called, in insertion
\* order
ForEachSnapshot(container) == container

\* Clear leaves the container empty
Clear(container) == <<>>

\* AddListener appends a listener the container does not hold
Add(container, l) == Append(container, l)

\* RemoveListener takes the listener out and keeps the order of the others
Remove(container, l) == SelectSeq(container, LAMBDA x : x # l)

\* ------------------------------------- state manager and client, as called
\* Start of a component: it runs unless the call returned an error
ComponentStart(running, err) == IF err THEN running ELSE TRUE

\* Close of a component: it no longer runs, whatever the call returned
ComponentClose(running, err) == FALSE

\* Close's ForEach has taken its snapshot and has calls left to make
PassUnderWay == \E t \in Threads : pc[t] = "closeDeliver"

\* A change of c.listeners recorded in the history when it falls in the pass
\* and the pass could be affected by it
Change19(kind, l) ==
    LET new == l \notin Range(passSnap)
        due == l \in Range(passSnap) /\ l \notin Range(visited)
    IN Rec("dispatch",
           IF PassUnderWay /\ ((kind = "add" /\ new) \/ (kind = "remove" /\ due))
             THEN changed \cup {<<kind, l>>}
             ELSE changed,
           changed)

\* CuratorListenable().AddListener(l)
AddListener(l) ==
    /\ l \notin Range(listeners)
    /\ listeners' = Add(listeners, l)
    /\ changed' = Change19("add", l)
    /\ UNCHANGED <<other, passSnap, visited, shared, unhandledErrorListeners,
                   connListeners, locals, startHist, closeHist, lastRet,
                   lastCall, execStates, eventHist>>

\* CuratorListenable().RemoveListener(l)
RemoveListener(l) ==
    /\ l \in Range(listeners)
    /\ listeners' = Remove(listeners, l)
    /\ changed' = Change19("remove", l)
    /\ UNCHANGED <<other, passSnap, visited, shared, unhandledErrorListeners,
                   connListeners, locals, startHist, closeHist, lastRet,
                   lastCall, execStates, eventHist>>

\* UnhandledErrorListenable().AddListener(u)
AddUnhandledErrorListener(u) ==
    /\ u \notin Range(unhandledErrorListeners)
    /\ unhandledErrorListeners' = Add(unhandledErrorListeners, u)
    /\ UNCHANGED <<other, passHist, shared, listeners, connListeners, locals, startHist, closeHist, lastRet, lastCall, execStates, eventHist>>

\* ConnectionStateListenable().AddListener(k)
AddConnectionStateListener(k) ==
    /\ k \notin Range(connListeners)
    /\ connListeners' = Add(connListeners, k)
    /\ UNCHANGED <<other, passHist, shared, listeners, unhandledErrorListeners, locals,
                   startHist, closeHist, lastRet, lastCall, execStates,
                   eventHist>>

\* ---------------------------------------------------------------- Start
\* A Start that goes on to the components whatever the swap answered.
StartNoGuard(t) ==
    /\ pc[t] = "idle"
    /\ state' = Change(state, LATENT, STARTED).val
    /\ pc' = [pc EXCEPT ![t] = "startStateManager"]
    /\ UNCHANGED <<other, passHist, observe, smRunning, clientRunning, containers, snap, idx, startHist,
                   closeHist, lastRet, lastCall, execStates, eventHist>>

\* Start, line 208: the swap LATENT -> STARTED decides who goes on
Start(t) ==
    /\ pc[t] = "idle"
    /\ LET r == Change(state, LATENT, STARTED) IN
        /\ state' = r.val
            /\ IF r.ok
             THEN /\ pc' = [pc EXCEPT ![t] = "startStateManager"]
                  /\ UNCHANGED lastRet
             ELSE /\ lastRet' = Ret({"lifecycle", "edges"}, "Start", FALSE,
                                    "errStartedTwice")
                  /\ UNCHANGED pc
    /\ UNCHANGED <<other, passHist, observe, smRunning, clientRunning, containers, snap, idx, startHist,
                   closeHist, lastCall, execStates, eventHist>>

\* A Start that puts the state back to LATENT when the state manager fails.
StartStateManagerRollBack(t) ==
    /\ pc[t] = "startStateManager"
    /\ smStartCalls' = Rec("lifecycle", Bump(smStartCalls), smStartCalls)
    /\ \E err \in BOOLEAN :
        /\ smRunning' = ComponentStart(smRunning, err)
        /\ IF err
             THEN /\ lastRet' = Ret({"lifecycle", "edges"}, "Start", TRUE,
                                    "errStateManager")
                  /\ startFailed' = Failed("stateManager")
                  /\ state' = LATENT
                  /\ pc' = [pc EXCEPT ![t] = "idle"]
             ELSE /\ pc' = [pc EXCEPT ![t] = "startClient"]
                  /\ UNCHANGED <<lastRet, startFailed, state>>
    /\ UNCHANGED <<nsVars, pathVars, connVars, retryVars, versionVars, closedLatent, passHist, observe,
                   clientRunning, containers, snap, idx,
                   clientStartCalls, closeHist, lastCall, execStates,
                   eventHist>>

\* Start, line 210: c.stateManager.Start() and its error return
StartStateManager(t) ==
    /\ pc[t] = "startStateManager"
    /\ smStartCalls' = Rec("lifecycle", Bump(smStartCalls), smStartCalls)
    /\ \E err \in BOOLEAN :
        /\ smRunning' = ComponentStart(smRunning, err)
        /\ IF err
             THEN /\ lastRet' = Ret({"lifecycle", "edges"}, "Start", TRUE,
                                    "errStateManager")
                  /\ startFailed' = Failed("stateManager")
                  /\ pc' = [pc EXCEPT ![t] = "idle"]
             ELSE /\ pc' = [pc EXCEPT ![t] = "startClient"]
                  /\ UNCHANGED <<lastRet, startFailed>>
    /\ UNCHANGED <<nsVars, pathVars, connVars, retryVars, versionVars, closedLatent, passHist, observe,
                   state, clientRunning, containers, snap, idx,
                   clientStartCalls, closeHist, lastCall, execStates,
                   eventHist>>

\* Start, lines 212-216: c.client.Start() and the return
StartClient(t) ==
    /\ pc[t] = "startClient"
    /\ clientStartCalls' = Rec("lifecycle", Bump(clientStartCalls), clientStartCalls)
    /\ \E err \in BOOLEAN :
        /\ clientRunning' = ComponentStart(clientRunning, err)
        /\ lastRet' = Ret({"lifecycle", "edges"}, "Start", TRUE,
                       IF err THEN "errClient" ELSE "nil")
        /\ startFailed' = IF err THEN Failed("client") ELSE startFailed
    /\ pc' = [pc EXCEPT ![t] = "idle"]
    /\ UNCHANGED <<nsVars, pathVars, connVars, retryVars, versionVars, closedLatent, passHist, observe,
                   state, smRunning, containers, snap, idx, smStartCalls,
                   closeHist, lastCall, execStates, eventHist>>

\* ---------------------------------------------------------------- Close
\* The order of Close's steps with the client closed ahead of the state manager.
CloseNextPcClientFirst(p) ==
    CASE p = "closeForEach" -> "closeClearListeners"
      [] p = "closeClearListeners" -> "closeClearUnhandled"
      [] p = "closeClearUnhandled" -> "closeClient"
      [] p = "closeClient" -> "closeStateManager"
      [] p = "closeStateManager" -> "idle"

\* Close, lines 224-237: the statement that follows each statement
CloseNextPc(p) ==
    CASE p = "closeForEach" -> "closeClearListeners"
      [] p = "closeClearListeners" -> "closeClearUnhandled"
      [] p = "closeClearUnhandled" -> "closeStateManager"
      [] p = "closeStateManager" -> "closeClient"
      [] p = "closeClient" -> "idle"

\* A Close that tears down whatever the swap answered.
CloseNoGuard(t) ==
    /\ pc[t] = "idle"
    /\ state' = Change(state, STARTED, STOPPED).val
    /\ pc' = [pc EXCEPT ![t] = "closeForEach"]
    /\ UNCHANGED <<other, passHist, observe, smRunning, clientRunning, containers, snap, idx, startHist,
                   closeHist, lastRet, lastCall, execStates, eventHist>>

\* A Close that tears down a facade in any state.
CloseAnyState(t) ==
    /\ pc[t] = "idle"
    /\ state' = STOPPED
    /\ pc' = [pc EXCEPT ![t] = "closeForEach"]
    /\ UNCHANGED <<other, passHist, observe, smRunning, clientRunning,
                   containers, snap, idx, startHist, closeHist, lastRet,
                   lastCall, execStates, eventHist>>

\* Close, lines 220-222: the swap STARTED -> STOPPED decides who tears down
Close(t) ==
    /\ pc[t] = "idle"
    /\ LET r == Change(state, STARTED, STOPPED) IN
        /\ state' = r.val
            /\ IF r.ok
             THEN /\ pc' = [pc EXCEPT ![t] = "closeForEach"]
                  /\ UNCHANGED lastRet
             ELSE /\ lastRet' = Ret({"teardown", "closeResult"}, "Close", FALSE, "nil")
                  /\ UNCHANGED pc
        /\ closedLatent' = Rec("edges",
                                IF state = LATENT THEN "nil" ELSE closedLatent,
                                closedLatent)
    /\ UNCHANGED <<nsVars, pathVars, connVars, retryVars, versionVars, startFailed, passHist, observe,
                   smRunning, clientRunning, containers, snap, idx, startHist,
                   closeHist, lastCall, execStates, eventHist>>

\* Close, lines 224-226: c.listeners.ForEach takes its snapshot
CloseForEach(t) ==
    /\ pc[t] = "closeForEach"
    /\ snap' = [snap EXCEPT ![t] = ForEachSnapshot(listeners)]
    /\ idx' = [idx EXCEPT ![t] = IF listeners = <<>> THEN 0 ELSE 1]
    /\ broadcastSnap' = Rec("teardown", listeners, broadcastSnap)
    /\ passSnap' = Rec("dispatch", listeners, passSnap)
    /\ teardownLog' = Log("forEach", 0)
    /\ pc' = [pc EXCEPT ![t] = IF listeners = <<>>
                                 THEN CloseNextPc("closeForEach")
                                 ELSE "closeDeliver"]
    /\ UNCHANGED <<other, visited, changed, closeOutcomes, shared, containers, startHist, lastRet, lastCall,
                   execStates, eventHist>>

\* A pass that walks c.listeners itself: each call takes the listener now at
\* the next index, and the pass ends when the container has none there.
CloseDeliverLive(t) ==
    /\ pc[t] = "closeDeliver"
    /\ LET here == idx[t] <= Len(listeners)
           last == idx[t] >= Len(listeners) IN
        /\ teardownLog' = IF here THEN Log(CLOSING, listeners[idx[t]])
                                  ELSE teardownLog
        /\ visited' = Rec("dispatch",
                          IF here THEN Append(visited, listeners[idx[t]])
                                  ELSE visited,
                          visited)
        /\ idx' = [idx EXCEPT ![t] = IF last THEN 0 ELSE idx[t] + 1]
        /\ snap' = [snap EXCEPT ![t] = IF last THEN <<>> ELSE snap[t]]
        /\ pc' = [pc EXCEPT ![t] = IF last THEN CloseNextPc("closeForEach")
                                            ELSE "closeDeliver"]
    /\ UNCHANGED <<other, passSnap, changed, shared, containers, startHist,
                   broadcastSnap, closeOutcomes, lastRet, lastCall,
                   execStates, eventHist>>

\* Close, lines 226-228: one listener's EventReceived(c, evt); the error it
\* returns is dropped by the callback.  The snapshot is released with the
\* last call.
CloseDeliver(t) ==
    /\ pc[t] = "closeDeliver"
    /\ teardownLog' = Log(CLOSING, snap[t][idx[t]])
    /\ visited' = Rec("dispatch", Append(visited, snap[t][idx[t]]), visited)
    /\ \E err \in BOOLEAN :
        /\ listenerErrors' =
               Rec("listenerErrors",
                   IF err THEN listenerErrors \cup
                               {<<snap[t][idx[t]], unhandledErrorListeners>>}
                          ELSE listenerErrors,
                   listenerErrors)
    /\ LET last == idx[t] >= Len(snap[t]) IN
        /\ idx' = [idx EXCEPT ![t] = IF last THEN 0 ELSE idx[t] + 1]
        /\ snap' = [snap EXCEPT ![t] = IF last THEN <<>> ELSE snap[t]]
        /\ pc' = [pc EXCEPT ![t] = IF last THEN CloseNextPc("closeForEach")
                                            ELSE "closeDeliver"]
    /\ UNCHANGED <<other, passSnap, changed, shared, containers, startHist,
                   broadcastSnap, closeOutcomes, lastRet, lastCall,
                   execStates, handed, owed, watchedDelivered,
                   unhandledDelivered>>

\* Close, line 230: c.listeners.Clear()
CloseClearListeners(t) ==
    /\ pc[t] = "closeClearListeners"
    /\ listeners' = Clear(listeners)
    /\ teardownLog' = Log("clearListeners", 0)
    /\ pc' = [pc EXCEPT ![t] = CloseNextPc("closeClearListeners")]
    /\ UNCHANGED <<other, passHist, closeOutcomes, shared, unhandledErrorListeners, connListeners, snap, idx,
                   startHist, broadcastSnap, lastRet, lastCall,
                   execStates, eventHist>>

\* Close, line 231: c.unhandledErrorListeners.Clear()
CloseClearUnhandled(t) ==
    /\ pc[t] = "closeClearUnhandled"
    /\ unhandledErrorListeners' = Clear(unhandledErrorListeners)
    /\ teardownLog' = Log("clearUnhandled", 0)
    /\ pc' = [pc EXCEPT ![t] = CloseNextPc("closeClearUnhandled")]
    /\ UNCHANGED <<other, passHist, closeOutcomes, shared, listeners, connListeners, snap, idx, startHist,
                   broadcastSnap, lastRet, lastCall, execStates,
                   eventHist>>

\* A Close that returns the state manager's error at once.
CloseStateManagerEscalate(t) ==
    /\ pc[t] = "closeStateManager"
    /\ teardownLog' = Log("smClose", 0)
    /\ \E err \in BOOLEAN :
        /\ smRunning' = ComponentClose(smRunning, err)
        /\ closeOutcomes' = Rec("closeResult",
                                [closeOutcomes EXCEPT !.sm = Outcome(err)],
                                closeOutcomes)
        /\ IF err
             THEN /\ lastRet' = Ret({"teardown", "closeResult"}, "Close", TRUE, "errStateManager")
                  /\ pc' = [pc EXCEPT ![t] = "idle"]
             ELSE /\ pc' = [pc EXCEPT ![t] = CloseNextPc("closeStateManager")]
                  /\ UNCHANGED lastRet
    /\ UNCHANGED <<other, passHist, observe, state, clientRunning, containers, snap, idx, startHist,
                   broadcastSnap, lastCall, execStates, eventHist>>

\* Close, lines 233-235: c.stateManager.Close(); an error is only logged
CloseStateManager(t) ==
    /\ pc[t] = "closeStateManager"
    /\ teardownLog' = Log("smClose", 0)
    /\ \E err \in BOOLEAN :
        /\ smRunning' = ComponentClose(smRunning, err)
        /\ closeOutcomes' = Rec("closeResult",
                                [closeOutcomes EXCEPT !.sm = Outcome(err)],
                                closeOutcomes)
    /\ pc' = [pc EXCEPT ![t] = CloseNextPc("closeStateManager")]
    /\ UNCHANGED <<other, passHist, observe, state, clientRunning, containers, snap, idx, startHist,
                   broadcastSnap, lastRet, lastCall, execStates,
                   eventHist>>

\* Close, line 237: return c.client.Close()
CloseClient(t) ==
    /\ pc[t] = "closeClient"
    /\ teardownLog' = Log("clientClose", 0)
    /\ \E err \in BOOLEAN :
        /\ clientRunning' = ComponentClose(clientRunning, err)
        /\ closeOutcomes' = Rec("closeResult",
                                [closeOutcomes EXCEPT !.client = Outcome(err)],
                                closeOutcomes)
        /\ lastRet' = Ret({"teardown", "closeResult"}, "Close", TRUE,
                       IF err THEN "errClient" ELSE "nil")
    /\ pc' = [pc EXCEPT ![t] = CloseNextPc("closeClient")]
    /\ UNCHANGED <<other, passHist, observe, state, smRunning, containers, snap, idx, startHist,
                   broadcastSnap, lastCall, execStates, eventHist>>

\* ------------------------------------------------------ builder factories
\* What a factory hands back when the check lets it through
Product(m) == IF m \in FacadeMethods THEN "facade" ELSE "builder"

\* The factories differ in nothing but what they hand back
Products == {Product(m) : m \in FactoryMethods}

\* Create ... UsingNamespace, lines 248-339: c.state.Check(STARTED, ...) and
\* the builder or facade p; DoSync and NonNamespaceView reach the check
\* through Sync and UsingNamespace
Factory(t, p) ==
    /\ pc[t] = "idle"
    /\ LET ok == Check(state, STARTED) IN
        /\ lastCall' = Rec("factories",
                        [st |-> state, result |-> IF ok THEN p ELSE "panic"],
                        lastCall)
        /\ pc' = [pc EXCEPT ![t] = IF ok /\ p = "builder"
                                     THEN "builder" ELSE "idle"]
    /\ UNCHANGED <<other, passHist, shared, containers, snap, idx, startHist, closeHist,
                   lastRet, execStates, eventHist>>

\* ForPath of a builder: the operation runs against c.client
ForPath(t) ==
    /\ pc[t] = "builder"
    /\ execStates' = Rec("execution", execStates \cup {state}, execStates)
    /\ pc' = [pc EXCEPT ![t] = "idle"]
    /\ UNCHANGED <<other, passHist, shared, containers, snap, idx, startHist, closeHist,
                   lastRet, lastCall, eventHist>>

\* ---------------------------------------------------------------- watcher
\* processEvent, lines 324-329: the body handles no event; the deliveries
\* after the call are the deliveries before it
processEvent(event) ==
    IF event.eventType = WATCHED THEN watchedDelivered ELSE watchedDelivered

\* newCuratorFramework, lines 191-198: the watcher callback the client calls
\* with a raw event
WatcherCallback(e) ==
    /\ clientRunning
    /\ LET first == e \notin handed /\ state = STARTED IN
        /\ handed' = Rec("events",
                         IF first THEN handed \cup {e} ELSE handed,
                         handed)
        /\ owed' = Rec("events",
                       IF first THEN owed \cup {<<l, e>> : l \in Range(listeners)}
                                ELSE owed,
                       owed)
    /\ watchedDelivered' =
           Rec("events",
               processEvent([eventType |-> WATCHED, watchedEvent |-> e]),
               watchedDelivered)
    /\ UNCHANGED <<other, passHist, shared, containers, locals, startHist, closeHist,
                   lastRet, lastCall, execStates, listenerErrors,
                   unhandledDelivered>>

\* ------------------------------------------------------------------ Next
Next ==
    \/ \E l \in CuratorListeners : AddListener(l)
    \/ \E u \in ErrorListeners : AddUnhandledErrorListener(u)
    \/ \E k \in StateListeners : AddConnectionStateListener(k)
    \/ \E t \in Threads : Start(t)
    \/ \E t \in Threads : StartStateManager(t)
    \/ \E t \in Threads : StartClient(t)
    \/ \E t \in Threads : Close(t)
    \/ \E t \in Threads : CloseForEach(t)
    \/ \E t \in Threads : CloseDeliver(t)
    \/ \E t \in Threads : CloseClearListeners(t)
    \/ \E t \in Threads : CloseClearUnhandled(t)
    \/ \E t \in Threads : CloseStateManager(t)
    \/ \E t \in Threads : CloseClient(t)
    \/ \E t \in Threads, p \in Products : Factory(t, p)
    \/ \E t \in Threads : ForPath(t)
    \/ \E e \in RawEvents : WatcherCallback(e)

Spec == Init /\ [][Next]_vars

\* The same facade, watched for the steps of Close's teardown
TeardownInit == observe = "teardown" /\ Constructed(NoNamespace)

TeardownSpec == TeardownInit /\ [][Next]_vars

\* The same facade, watched for what its listeners and its builders do
EventInit ==
    /\ observe \in {"listenerErrors", "execution", "events"}
    /\ Constructed(NoNamespace)

EventSpec == EventInit /\ [][Next]_vars

\* ------------------------------------------------------------ namespaces
\* fixForNamespace(namespace, path, isSequential): the path under the
\* namespace; a path is left as it is when there is no namespace
fixForNamespace(ns, path) == IF ns = NoNamespace THEN path ELSE ns \o path

HasPrefix(path, prefix) ==
    /\ Len(prefix) <= Len(path)
    /\ SubSeq(path, 1, Len(prefix)) = prefix

\* unfixForNamespace(namespace, path): the path with the namespace taken off
\* its front, when it is there
unfixForNamespace(ns, path) ==
    IF ns # NoNamespace /\ HasPrefix(path, ns)
      THEN SubSeq(path, Len(ns) + 1, Len(path))
      ELSE path

\* namespaceFacadeCache.Get(ns): the facade the cache holds for ns, or else
\* a new one, which the cache holds from then on
Get(cache, constructed, ns) ==
    IF cache[ns] # 0
      THEN [facade |-> cache[ns], hit |-> TRUE, cache |-> cache,
            facades |-> constructed]
      ELSE [facade |-> Len(constructed) + 1, hit |-> FALSE,
            cache |-> [cache EXCEPT ![ns] = Len(constructed) + 1],
            facades |-> Append(constructed, ns)]

\* UsingNamespace, line 336: c.state.Check(STARTED, ...); a panic ends the
\* call.  api is the method the caller called.
UsingNamespaceCheck(t, api, newNamespace) ==
    /\ pc[t] = "idle"
    /\ IF Check(state, STARTED)
         THEN /\ pc' = [pc EXCEPT ![t] = "usingNamespace"]
              /\ nsArg' = [nsArg EXCEPT
                              ![t] = [api |-> api, newNamespace |-> newNamespace]]
         ELSE UNCHANGED <<pc, nsArg>>
    /\ UNCHANGED <<shared, containers, snap, idx, startHist, closeHist,
                   lastRet, lastCall, execStates, eventHist, passHist, pathVars, connVars, retryVars, versionVars, edgeHist,
                   namespace, facades, facadeCache, got>>

\* UsingNamespace(newNamespace), lines 335-336
UsingNamespace(t, newNamespace) ==
    UsingNamespaceCheck(t, "UsingNamespace", newNamespace)

\* A view of the root's own namespace.
NonNamespaceViewOwn(t) == UsingNamespaceCheck(t, "NonNamespaceView", namespace)

\* NonNamespaceView, lines 331-333: c.UsingNamespace("")
NonNamespaceView(t) == UsingNamespaceCheck(t, "NonNamespaceView", NoNamespace)

\* A facade made anew for every call, the cache left aside.
UsingNamespaceNew(t) ==
    /\ pc[t] = "usingNamespace"
    /\ Len(facades) < MaxFacades
    /\ facades' = Append(facades, nsArg[t].newNamespace)
    /\ got' = got \cup {<<nsArg[t].api, nsArg[t].newNamespace,
                           Len(facades) + 1, FALSE>>}
    /\ pc' = [pc EXCEPT ![t] = "idle"]
    /\ nsArg' = [nsArg EXCEPT ![t] = NoArg]
    /\ UNCHANGED <<shared, containers, snap, idx, startHist, closeHist,
                   lastRet, lastCall, execStates, eventHist, passHist, pathVars, connVars, retryVars, versionVars, edgeHist,
                   namespace, facadeCache>>

\* UsingNamespace, line 338: return c.namespaceFacadeCache.Get(newNamespace)
UsingNamespaceGet(t) ==
    /\ pc[t] = "usingNamespace"
    /\ LET r == Get(facadeCache, facades, nsArg[t].newNamespace) IN
        /\ Len(r.facades) <= MaxFacades
        /\ facadeCache' = r.cache
        /\ facades' = r.facades
        /\ got' = got \cup {<<nsArg[t].api, nsArg[t].newNamespace,
                               r.facade, r.hit>>}
    /\ pc' = [pc EXCEPT ![t] = "idle"]
    /\ nsArg' = [nsArg EXCEPT ![t] = NoArg]
    /\ UNCHANGED <<shared, containers, snap, idx, startHist, closeHist,
                   lastRet, lastCall, execStates, eventHist, passHist, pathVars, connVars, retryVars, versionVars, edgeHist,
                   namespace>>

\* c.fixForNamespace(path, false), lines 345-347, of the root or of a facade
\* whose namespace is ns: the server path an operation on path addresses
ViewPath(ns, path) == fixForNamespace(ns, path)

\* c.unfixForNamespace(event.Path), lines 195 and 349-351: c is the root
\* facade, whose callback the client calls for every watch
EventPath(serverPath) == unfixForNamespace(namespace, serverPath)

\* The root facade, and the facade UsingNamespace(ns) returns
RootView == [root |-> TRUE, ns |-> namespace]
FacadeView(ns) == [root |-> FALSE, ns |-> ns]
Views == {RootView} \cup {FacadeView(ns) : ns \in Namespaces}

\* SetData().ForPath(path, data) through the view v: the path is rewritten
\* and the node written
Write(v, path, data) ==
    /\ Check(state, STARTED)
    /\ writes < MaxWrites
    /\ writes' = writes + 1
    /\ tree' = [tree EXCEPT ![ViewPath(v.ns, path)] = data]
    /\ lastWrite' = Rec("data", [view |-> v, path |-> path, data |-> data],
                        lastWrite)
    /\ lastRead' = Rec("data", NoOp, lastRead)
    /\ UNCHANGED <<shared, containers, locals, frameworkHist, nsVars,
                   connVars, retryVars, versionVars, lastEvent>>

\* GetData().ForPath(path) through the view v
Read(v, path) ==
    /\ Check(state, STARTED)
    /\ lastRead' = Rec("data",
                       [view |-> v, path |-> path,
                        data |-> tree[ViewPath(v.ns, path)]],
                       lastRead)
    /\ UNCHANGED <<shared, containers, locals, frameworkHist, nsVars,
                   connVars, retryVars, versionVars, tree, writes, lastWrite, lastEvent>>

\* newCuratorFramework, lines 191-198: the watcher callback, called by the
\* client for a watch that was set through the view v on path; the event it
\* builds carries c.unfixForNamespace(event.Path)
WatcherCallbackPath(v, path) ==
    /\ clientRunning
    /\ lastEvent' = Rec("watch",
                        [view |-> v, path |-> path,
                         seen |-> EventPath(ViewPath(v.ns, path))],
                        lastEvent)
    /\ UNCHANGED <<shared, containers, locals, frameworkHist, nsVars,
                   connVars, retryVars, versionVars, tree, writes, lastWrite, lastRead>>

\* A facade built with any namespace: writes, reads and watches through the
\* root and through the facades of its namespaces
PathInit ==
    observe \in {"data", "watch"} /\ \E ns \in RootNamespaces : Constructed(ns)

PathNext ==
    \/ \E t \in Threads : Start(t)
    \/ \E t \in Threads : StartStateManager(t)
    \/ \E t \in Threads : StartClient(t)
    \/ \E v \in Views, path \in Paths, data \in Data : Write(v, path, data)
    \/ \E v \in Views, path \in Paths : Read(v, path)
    \/ \E v \in Views, path \in Paths : WatcherCallbackPath(v, path)

PathSpec == PathInit /\ [][PathNext]_vars

\* A facade built with any namespace, started and asked for views by its
\* threads
NamespaceInit ==
    observe = "namespaces" /\ \E ns \in RootNamespaces : Constructed(ns)

NamespaceNext ==
    \/ \E t \in Threads : Start(t)
    \/ \E t \in Threads : StartStateManager(t)
    \/ \E t \in Threads : StartClient(t)
    \/ \E t \in Threads, ns \in Namespaces : UsingNamespace(t, ns)
    \/ \E t \in Threads : NonNamespaceView(t)
    \/ \E t \in Threads : UsingNamespaceGet(t)

NamespaceSpec == NamespaceInit /\ [][NamespaceNext]_vars

\* ------------------------------------------- the pass of Close's ForEach
\* Start and Close against threads that add and remove CuratorListeners
DispatchInit == observe = "dispatch" /\ Constructed(NoNamespace)

DispatchNext ==
    \/ \E l \in CuratorListeners : AddListener(l)
    \/ \E l \in CuratorListeners : RemoveListener(l)
    \/ \E t \in Threads : Start(t)
    \/ \E t \in Threads : StartStateManager(t)
    \/ \E t \in Threads : StartClient(t)
    \/ \E t \in Threads : Close(t)
    \/ \E t \in Threads : CloseForEach(t)
    \/ \E t \in Threads : CloseDeliver(t)
    \/ \E t \in Threads : CloseClearListeners(t)
    \/ \E t \in Threads : CloseClearUnhandled(t)
    \/ \E t \in Threads : CloseStateManager(t)
    \/ \E t \in Threads : CloseClient(t)

DispatchSpec == DispatchInit /\ [][DispatchNext]_vars

\* ------------------------------------------------ connection state manager
\* The session events of the raw client
RawSessionEvents == {"SyncConnected", "Disconnected", "Expired",
                     "ConnectedReadOnly"}

\* ConnectionState.Connected(): the states BlockUntilConnected waits for
IsConnected(cs) == cs \in {"Connected", "Reconnected"}

\* A classification that takes a session expiry for a transient loss.
ClassifyExpiryAsLoss(raw, ever) ==
    CASE raw = "Disconnected" -> "Suspended"
      [] raw = "Expired" -> "Suspended"
      [] raw = "ConnectedReadOnly" -> "ReadOnly"
      [] raw = "SyncConnected" -> IF ever THEN "Reconnected" ELSE "Connected"

\* The ConnectionState a raw session event leads to: Suspended on a
\* transient loss, Lost on an expired session, Connected on the first
\* handshake and Reconnected on a later one
Classify(raw, ever) ==
    CASE raw = "Disconnected" -> "Suspended"
      [] raw = "Expired" -> "Lost"
      [] raw = "ConnectedReadOnly" -> "ReadOnly"
      [] raw = "SyncConnected" -> IF ever THEN "Reconnected" ELSE "Connected"

\* A post that keeps a full queue as it is and loses the new state.
postStateDropNewest(q, e) ==
    IF Len(q) < QueueSize
      THEN [queue |-> Append(q, e), dropped |-> {}]
      ELSE [queue |-> q, dropped |-> {e[1]}]

\* A post to the bounded queue: a full queue loses its oldest state to make
\* room
postState(q, e) ==
    IF Len(q) < QueueSize
      THEN [queue |-> Append(q, e), dropped |-> {}]
      ELSE [queue |-> Append(Tail(q), e), dropped |-> {Head(q)[1]}]

\* The client reports a session event to the state manager: a change of the
\* ConnectionState is posted to the queue, and the producer goes on
AddStateChange(raw) ==
    /\ clientRunning
    /\ posts < MaxPosts
    /\ LET new == Classify(raw, everConnected)
           r == postState(queue, <<posts + 1, new>>) IN
        /\ new # connState
        /\ connState' = new
        /\ everConnected' = (everConnected \/ raw = "SyncConnected")
        /\ posts' = posts + 1
        /\ queue' = r.queue
        /\ missed' = (missed \/ r.dropped # {})
        /\ dropped' = Rec("queue", dropped \cup r.dropped, dropped)
        /\ trail' = Rec("expiry", Append(trail, <<raw, new>>), trail)
    /\ UNCHANGED <<shared, containers, locals, frameworkHist, nsVars,
                   pathVars, retryVars, versionVars, wait, deliveries, lastWait>>

\* The delivery loop takes the oldest state off the queue and hands it to the
\* connection-state listeners
DeliverState ==
    /\ smRunning
    /\ queue # <<>>
    /\ queue' = Tail(queue)
    /\ deliveries' = Rec("queue", Append(deliveries, Head(queue)), deliveries)
    /\ UNCHANGED <<shared, containers, locals, frameworkHist, nsVars,
                   pathVars, retryVars, versionVars, connState, everConnected, posts, missed, wait,
                   dropped, trail, lastWait>>

\* c.stateManager.BlockUntilConnected(maxWaitTime), line 366: the caller
\* begins to wait.  api is the method the caller called.
Block(t, api, maxWaitTime) ==
    /\ pc[t] = "idle"
    /\ pc' = [pc EXCEPT ![t] = "blocked"]
    /\ wait' = [wait EXCEPT ![t] = [api |-> api, maxWaitTime |-> maxWaitTime,
                                     left |-> maxWaitTime]]
    /\ UNCHANGED <<shared, containers, snap, idx, frameworkHist, nsVars,
                   pathVars, retryVars, versionVars, connState, everConnected, queue, posts, missed,
                   deliveries, dropped, trail, lastWait>>

\* A BlockUntilConnected that waits one unit of time at most.
BlockUntilConnectedBounded(t) == Block(t, "BlockUntilConnected", 1)

\* BlockUntilConnected, lines 361-363: c.BlockUntilConnectedTimeout(0)
BlockUntilConnected(t) == Block(t, "BlockUntilConnected", 0)

\* BlockUntilConnectedTimeout(maxWaitTime), lines 365-367
BlockUntilConnectedTimeout(t, maxWaitTime) ==
    Block(t, "BlockUntilConnectedTimeout", maxWaitTime)

\* One unit of a waiting caller's time passes
Tick(t) ==
    /\ pc[t] = "blocked"
    /\ wait[t].left > 0
    /\ wait' = [wait EXCEPT ![t].left = @ - 1]
    /\ UNCHANGED <<shared, containers, locals, frameworkHist, nsVars,
                   pathVars, retryVars, versionVars, connState, everConnected, queue, posts, missed,
                   deliveries, dropped, trail, lastWait>>

\* The return of a wait recorded in the history
WaitReturn(t, result) ==
    Rec("block",
        [api |-> wait[t].api, maxWaitTime |-> wait[t].maxWaitTime,
         left |-> wait[t].left, result |-> result, conn |-> connState],
        lastWait)

\* The wait ends with success: the ConnectionState is Connected or
\* Reconnected
BlockReturn(t) ==
    /\ pc[t] = "blocked"
    /\ IsConnected(connState)
    /\ lastWait' = WaitReturn(t, "nil")
    /\ pc' = [pc EXCEPT ![t] = "idle"]
    /\ wait' = [wait EXCEPT ![t] = NoWait]
    /\ UNCHANGED <<shared, containers, snap, idx, frameworkHist, nsVars,
                   pathVars, retryVars, versionVars, connState, everConnected, queue, posts, missed,
                   deliveries, dropped, trail>>

\* The wait ends with a timeout error: a deadline was set and has passed
\* without a connection
BlockTimeout(t) ==
    /\ pc[t] = "blocked"
    /\ wait[t].maxWaitTime > 0
    /\ wait[t].left = 0
    /\ ~IsConnected(connState)
    /\ lastWait' = WaitReturn(t, "timeout")
    /\ pc' = [pc EXCEPT ![t] = "idle"]
    /\ wait' = [wait EXCEPT ![t] = NoWait]
    /\ UNCHANGED <<shared, containers, snap, idx, frameworkHist, nsVars,
                   pathVars, retryVars, versionVars, connState, everConnected, queue, posts, missed,
                   deliveries, dropped, trail>>

\* The state manager of a facade being started: session events from the
\* client and the delivery loop
ConnInit == observe \in {"queue", "expiry"} /\ Constructed(NoNamespace)

ConnNext ==
    \/ \E t \in Threads : Start(t)
    \/ \E t \in Threads : StartStateManager(t)
    \/ \E t \in Threads : StartClient(t)
    \/ \E raw \in RawSessionEvents : AddStateChange(raw)
    \/ DeliverState

ConnSpec == ConnInit /\ [][ConnNext]_vars

\* The same, with threads that wait for a connection
BlockInit == observe = "block" /\ Constructed(NoNamespace)

BlockNext ==
    \/ ConnNext
    \/ \E t \in Threads : BlockUntilConnected(t)
    \/ \E t \in Threads : BlockUntilConnectedTimeout(t, MaxWait)
    \/ \E t \in Threads : Tick(t)
    \/ \E t \in Threads : BlockReturn(t)
    \/ \E t \in Threads : BlockTimeout(t)

BlockSpec == BlockInit /\ [][BlockNext]_vars

\* The lifecycle alone: threads that start and close the facade, register
\* listeners and make builders
LifecycleInit == observe = "edges" /\ Constructed(NoNamespace)

LifecycleNext ==
    \/ \E l \in CuratorListeners : AddListener(l)
    \/ \E t \in Threads : Start(t)
    \/ \E t \in Threads : StartStateManager(t)
    \/ \E t \in Threads : StartClient(t)
    \/ \E t \in Threads : Close(t)
    \/ \E t \in Threads : CloseForEach(t)
    \/ \E t \in Threads : CloseDeliver(t)
    \/ \E t \in Threads : CloseClearListeners(t)
    \/ \E t \in Threads : CloseClearUnhandled(t)
    \/ \E t \in Threads : CloseStateManager(t)
    \/ \E t \in Threads : CloseClient(t)
    \/ \E t \in Threads, p \in Products : Factory(t, p)
    \/ \E t \in Threads : ForPath(t)

LifecycleSpec == LifecycleInit /\ [][LifecycleNext]_vars

\* ------------------------------------------------------------- versions
\* A builder that asks for version 0 unless the caller sets another.
BuilderVersionZero(op) == [op |-> op, version |-> 0]

\* Delete, SetData, SetACL, lines 254-258, 272-276, 290-294: the builder the
\* facade returns
Builder(op) == [op |-> op, version |-> AnyVersion]

\* WithVersion(version) of a builder
WithVersion(b, version) == [b EXCEPT !.version = version]

\* The server's answer to a Delete, SetData or SetACL of the node: no-node
\* where there is none, version mismatch where a version other than
\* AnyVersion differs from the node's, else the mutation
Apply(node, b, payload) ==
    IF ~node.exists
      THEN [node |-> node, result |-> "no-node"]
      ELSE IF b.version # AnyVersion /\ b.version # node.version
        THEN [node |-> node, result |-> "version mismatch"]
        ELSE [result |-> "nil",
              node |-> CASE b.op = "Delete" -> NoNode
                         [] b.op = "SetData" ->
                              [node EXCEPT !.data = payload,
                                           !.version = @ + 1]
                         [] b.op = "SetACL" ->
                              [node EXCEPT !.acl = payload,
                                           !.version = @ + 1]]

\* What ForPath of a builder takes besides the path
Payloads(op) == CASE op = "SetData" -> Data
                  [] op = "SetACL" -> Acls
                  [] op = "Delete" -> {NoData}

\* Create().ForPath(path, data): the node comes to exist, at version 0
CreateNode(t, data) ==
    /\ pc[t] = "idle"
    /\ Check(state, STARTED)
    /\ ~znode.exists
    /\ znode' = [exists |-> TRUE, data |-> data, acl |-> "open",
                 version |-> 0]
    /\ UNCHANGED <<shared, containers, locals, frameworkHist, nsVars,
                   pathVars, connVars, retryVars, lastMutation>>

\* ForPath of the builder b: the factory has checked the state, the server
\* answers.  explicit tells that the caller set the version.
Mutate(t, b, explicit, payload) ==
    /\ pc[t] = "idle"
    /\ Check(state, STARTED)
    /\ znode.version < MaxVersion \/ b.op = "Delete"
    /\ LET r == Apply(znode, b, payload) IN
        /\ znode' = r.node
        /\ lastMutation' = Rec("versions",
                               [op |-> b.op, explicit |-> explicit,
                                version |-> b.version, before |-> znode,
                                after |-> r.node, result |-> r.result],
                               lastMutation)
    /\ UNCHANGED <<shared, containers, locals, frameworkHist, nsVars,
                   pathVars, connVars, retryVars>>

\* c.Delete().ForPath(path), c.SetData().ForPath(path, data),
\* c.SetACL().ForPath(path, acl)
ForPathDefault(t, op, payload) == Mutate(t, Builder(op), FALSE, payload)

\* The same with WithVersion(version) ahead of ForPath
ForPathWithVersion(t, op, version, payload) ==
    Mutate(t, WithVersion(Builder(op), version), TRUE, payload)

\* Threads that start the facade, create the node and mutate it
VersionInit == observe = "versions" /\ Constructed(NoNamespace)

VersionNext ==
    \/ \E t \in Threads : Start(t)
    \/ \E t \in Threads : StartStateManager(t)
    \/ \E t \in Threads : StartClient(t)
    \/ \E t \in Threads, data \in Data : CreateNode(t, data)
    \/ \E t \in Threads, op \in MutatingOps :
         \E payload \in Payloads(op) : ForPathDefault(t, op, payload)
    \/ \E t \in Threads, op \in MutatingOps, version \in Versions :
         \E payload \in Payloads(op) :
           ForPathWithVersion(t, op, version, payload)

VersionSpec == VersionInit /\ [][VersionNext]_vars

\* ------------------------------------------------ retries and background
Min(a, b) == IF a < b THEN a ELSE b

RECURSIVE Sum(_)
Sum(q) == IF q = <<>> THEN 0 ELSE Head(q) + Sum(Tail(q))

\* A policy that allows one retry more.
AllowRetryOneMore(attempt, elapsed) ==
    [retry |-> attempt <= MaxAttempts,
     sleep |-> Min(BaseSleep * 2 ^ (attempt - 1), MaxSleep)]

\* RetryPolicy.AllowRetry(attempt, elapsed) of the bounded exponential
\* backoff: a retry while fewer than MaxAttempts attempts were made, after a
\* sleep that doubles with each attempt up to MaxSleep
AllowRetry(attempt, elapsed) ==
    [retry |-> attempt < MaxAttempts,
     sleep |-> Min(BaseSleep * 2 ^ (attempt - 1), MaxSleep)]

\* A classification that takes every error for a transport error.
IsRetriableAny(err) == TRUE

\* The errors RunWithRetry retries
IsRetriable(err) == err \in Retriable

\* RunWithRetry begins: no attempt made yet
NewRun == [NoRun EXCEPT !.phase = "running"]

\* RunWithRetry after an attempt of the operation came back with outcome: a
\* result or a non-retriable error is returned as it is; a retriable error
\* is put to the policy, which gives the sleep before the next attempt or
\* declines, and then the error is returned with the count of the attempts
AfterAttempt(run, outcome) ==
    LET n == run.attempt + 1
        policy == AllowRetry(n, Sum(run.sleeps))
    IN IF outcome = "nil" \/ ~IsRetriable(outcome)
         THEN [run EXCEPT !.phase = "done", !.attempt = n, !.err = outcome,
                          !.ret = [err |-> outcome, attempts |-> 0,
                                   exhausted |-> FALSE]]
         ELSE IF policy.retry
           THEN [run EXCEPT !.phase = "sleeping", !.attempt = n,
                            !.err = outcome,
                            !.sleeps = Append(@, policy.sleep)]
           ELSE [run EXCEPT !.phase = "done", !.attempt = n, !.err = outcome,
                            !.ret = [err |-> outcome, attempts |-> n,
                                     exhausted |-> TRUE]]

\* RunWithRetry after the sleep: the next attempt
AfterSleep(run) == [run EXCEPT !.phase = "running"]

\* ForPath of a builder in the foreground: the factory checks the state, and
\* the caller is blocked in RunWithRetry
RunWithRetry(t) ==
    /\ pc[t] = "idle"
    /\ Check(state, STARTED)
    /\ pc' = [pc EXCEPT ![t] = "running"]
    /\ calls' = [calls EXCEPT ![t] = NewRun]
    /\ UNCHANGED <<shared, containers, snap, idx, frameworkHist, nsVars,
                   pathVars, connVars, versionVars, tasks>>

\* An attempt of the caller's operation comes back from the raw client;
\* when RunWithRetry is done with it, ForPath hands the result to the caller
Attempt(t, outcome) ==
    /\ pc[t] = "running"
    /\ calls[t].phase = "running"
    /\ LET run == AfterAttempt(calls[t], outcome) IN
        /\ calls' = [calls EXCEPT ![t] = run]
        /\ pc' = [pc EXCEPT ![t] = IF run.phase = "done" THEN "idle" ELSE @]
    /\ UNCHANGED <<shared, containers, snap, idx, frameworkHist, nsVars,
                   pathVars, connVars, versionVars, tasks>>

\* The sleep before the next attempt is over
Wake(t) ==
    /\ pc[t] = "running"
    /\ calls[t].phase = "sleeping"
    /\ calls' = [calls EXCEPT ![t] = AfterSleep(@)]
    /\ UNCHANGED <<shared, containers, locals, frameworkHist, nsVars,
                   pathVars, connVars, versionVars, tasks>>

\* c.Sync().InBackgroundWithContext(context).ForPath(path): Sync checks the
\* state, the builder holds context, ForPath launches the operation on the
\* background path and returns at once.  given is the context of the caller.
SyncInBackground(t, given, context) ==
    /\ pc[t] = "idle"
    /\ Len(tasks) < MaxBackground
    /\ tasks' = IF Check(state, STARTED)
                  THEN Append(tasks, [given |-> given, context |-> context,
                                      returned |-> "nil", run |-> NewRun,
                                      event |-> NoCuratorEvent,
                                      delivered |-> <<>>])
                  ELSE tasks
    /\ UNCHANGED <<shared, containers, locals, frameworkHist, nsVars,
                   pathVars, connVars, versionVars, calls>>

\* A DoSync that hands no context on.
DoSyncNoContext(t, context) == SyncInBackground(t, context, NoContext)

\* DoSync(path, context), lines 302-304; what ForPath returns is dropped
DoSync(t, context) == SyncInBackground(t, context, context)

\* A Sync().ForPath that runs the sync in the foreground.
SyncForPathForeground(t) == RunWithRetry(t)

\* c.Sync().ForPath(path): no background mode selected and no context given;
\* the sync runs in the background all the same
SyncForPath(t) == SyncInBackground(t, NoContext, NoContext)

\* The background path after RunWithRetry returned: one CuratorEvent with the
\* builder's context and the error, handed to the listeners of c.listeners
Dispatch(task) ==
    [task EXCEPT !.event = [type |-> SYNC, context |-> task.context,
                            err |-> task.run.ret.err],
                 !.delivered = @ \o ForEachSnapshot(listeners)]

\* An attempt of a background operation comes back from the raw client; when
\* RunWithRetry is done with it, the result is dispatched
BackgroundAttempt(i, outcome) ==
    /\ i \in 1..Len(tasks)
    /\ tasks[i].run.phase = "running"
    /\ LET task == [tasks[i] EXCEPT !.run = AfterAttempt(@, outcome)] IN
        tasks' = [tasks EXCEPT ![i] = IF task.run.phase = "done"
                                        THEN Dispatch(task) ELSE task]
    /\ UNCHANGED <<shared, containers, locals, frameworkHist, nsVars,
                   pathVars, connVars, versionVars, calls>>

\* The sleep before the next attempt of a background operation is over
BackgroundWake(i) ==
    /\ i \in 1..Len(tasks)
    /\ tasks[i].run.phase = "sleeping"
    /\ tasks' = [tasks EXCEPT ![i].run = AfterSleep(@)]
    /\ UNCHANGED <<shared, containers, locals, frameworkHist, nsVars,
                   pathVars, connVars, versionVars, calls>>

\* Operations in the foreground: threads that start the facade, make
\* operations with retries
RetryInit == observe = "retry" /\ Constructed(NoNamespace)

RetryNext ==
    \/ \E t \in Threads : Start(t)
    \/ \E t \in Threads : StartStateManager(t)
    \/ \E t \in Threads : StartClient(t)
    \/ \E t \in Threads : RunWithRetry(t)
    \/ \E t \in Threads, outcome \in AttemptOutcomes : Attempt(t, outcome)
    \/ \E t \in Threads : Wake(t)

RetrySpec == RetryInit /\ [][RetryNext]_vars

\* The same with one outcome of each kind, where the raw client answers
\* every attempt and every sleep ends
RetryLiveNext ==
    \/ \E t \in Threads : Start(t)
    \/ \E t \in Threads : StartStateManager(t)
    \/ \E t \in Threads : StartClient(t)
    \/ \E t \in Threads : RunWithRetry(t)
    \/ \E t \in Threads, outcome \in OutcomeKinds : Attempt(t, outcome)
    \/ \E t \in Threads : Wake(t)

RetryFairness ==
    \A t \in Threads :
        /\ WF_vars(\E outcome \in OutcomeKinds : Attempt(t, outcome))
        /\ WF_vars(Wake(t))

RetryLiveSpec == RetryInit /\ [][RetryLiveNext]_vars /\ RetryFairness

\* Operations in the background: threads that start the facade, register
\* listeners and call DoSync
BackgroundInit == observe = "background" /\ Constructed(NoNamespace)

BackgroundNext ==
    \/ \E t \in Threads : Start(t)
    \/ \E t \in Threads : StartStateManager(t)
    \/ \E t \in Threads : StartClient(t)
    \/ \E l \in CuratorListeners : AddListener(l)
    \/ \E t \in Threads, context \in Contexts : DoSync(t, context)
    \/ \E i \in 1..MaxBackground, outcome \in OutcomeKinds :
           BackgroundAttempt(i, outcome)
    \/ \E i \in 1..MaxBackground : BackgroundWake(i)

BackgroundSpec == BackgroundInit /\ [][BackgroundNext]_vars

\* Syncs: threads that start the facade and call Sync().ForPath or DoSync;
\* the raw client answers every attempt and every sleep ends
SyncInit == observe = "sync" /\ Constructed(NoNamespace)

SyncNext ==
    \/ \E t \in Threads : Start(t)
    \/ \E t \in Threads : StartStateManager(t)
    \/ \E t \in Threads : StartClient(t)
    \/ \E t \in Threads : SyncForPath(t)
    \/ \E t \in Threads, context \in Contexts : DoSync(t, context)
    \/ \E i \in 1..MaxBackground, outcome \in OutcomeKinds :
           BackgroundAttempt(i, outcome)
    \/ \E i \in 1..MaxBackground : BackgroundWake(i)

SyncFairness ==
    \A i \in 1..MaxBackground :
        /\ WF_vars(\E outcome \in OutcomeKinds : BackgroundAttempt(i, outcome))
        /\ WF_vars(BackgroundWake(i))

SyncSpec == SyncInit /\ [][SyncNext]_vars /\ SyncFairness

\* ------------------------------------------------------ vocabulary of claims
StartPcs == {"startStateManager", "startClient"}
ClosePcs == {"closeForEach", "closeDeliver", "closeClearListeners",
             "closeClearUnhandled", "closeStateManager", "closeClient"}

IsPrefix(s, t) == Len(s) <= Len(t) /\ \A i \in 1..Len(s) : s[i] = t[i]

IsClosing(entry) == entry[1] = CLOSING
IsStep(entry) == entry[1] # CLOSING

\* The statements of Close that ran, and the Closing deliveries, in order
StepsDone == LET st == SelectSeq(teardownLog, IsStep)
             IN [i \in 1..Len(st) |-> st[i][1]]
Delivered == LET d == SelectSeq(teardownLog, IsClosing)
             IN [i \in 1..Len(d) |-> d[i][2]]
Count(step) == Cardinality({i \in 1..Len(teardownLog) : teardownLog[i][1] = step})
Did(step) == \E i \in 1..Len(teardownLog) : teardownLog[i][1] = step

CloseOrder == <<"forEach", "clearListeners", "clearUnhandled", "smClose",
                "clientClose">>

\* A Close that won the swap has returned
TeardownReturned == state = STOPPED /\ \A t \in Threads : pc[t] \notin ClosePcs

\* ---------------------------------------------------------------- claims
\* C1: c.state changes only along LATENT -> STARTED and STARTED -> STOPPED;
\* as neither edge leads back, each is taken at most once and STOPPED is
\* never left, whatever Start and Close calls interleave.
C1_StateEdges ==
    [][\/ state' = state
       \/ state = LATENT /\ state' = STARTED
       \/ state = STARTED /\ state' = STOPPED]_vars

\* A Start was refused after the facade had been closed.
C1_Witness ==
    /\ state = STOPPED
    /\ lastRet = [op |-> "Start", won |-> FALSE, val |-> "errStartedTwice"]

\* C2: at most one Start goes on to c.stateManager.Start() and
\* c.client.Start(): each is called at most once, at most one thread is ever
\* between the swap and the return, and a Start that lost the swap returned
\* the error.
C2_OneStartProceeds ==
    /\ smStartCalls <= 1
    /\ clientStartCalls <= 1
    /\ Cardinality({t \in Threads : pc[t] \in StartPcs}) <= 1
    /\ (lastRet.op = "Start" /\ ~lastRet.won) => lastRet.val = "errStartedTwice"

\* Both components were started once and a further Start was refused.
C2_Witness ==
    /\ smStartCalls = 1
    /\ clientStartCalls = 1
    /\ lastRet = [op |-> "Start", won |-> FALSE, val |-> "errStartedTwice"]

\* C3: at most one Close tears down: every statement of the teardown runs at
\* most once (so Closing is broadcast at most once and no listener receives
\* it twice), at most one thread is ever inside the teardown, and a Close
\* that lost the swap returned nil.
C3_OneCloseTearsDown ==
    /\ \A i \in 1..Len(CloseOrder) : Count(CloseOrder[i]) <= 1
    /\ \A i, j \in 1..Len(Delivered) : Delivered[i] = Delivered[j] => i = j
    /\ Cardinality({t \in Threads : pc[t] \in ClosePcs}) <= 1
    /\ (lastRet.op = "Close" /\ ~lastRet.won) => lastRet.val = "nil"

\* The teardown ran to its end, with a broadcast, and a further Close returned.
C3_Witness ==
    /\ Did("clientClose")
    /\ Len(Delivered) > 0
    /\ lastRet = [op |-> "Close", won |-> FALSE, val |-> "nil"]

\* C4: a builder factory called while c.state is LATENT or STOPPED panics and
\* hands back nothing; called while STARTED it hands back its builder (DoSync:
\* the builder Sync gave it; UsingNamespace, NonNamespaceView: the facade);
\* the call leaves c.state as it was.
C4_FactoriesNeedStarted ==
    /\ [](lastCall.result # "none" =>
            /\ lastCall.st # STARTED => lastCall.result = "panic"
            /\ lastCall.st = STARTED => lastCall.result \in {"builder", "facade"})
    /\ [][lastCall' # lastCall => state' = state]_vars

\* A factory panicked on a closed facade while a builder handed out before
\* the Close is still held.
C4_Witness ==
    /\ lastCall = [st |-> STOPPED, result |-> "panic"]
    /\ \E t \in Threads : pc[t] = "builder"

\* C5: no builder executes while c.state is not STARTED.
C5_NoExecutionUnlessStarted == execStates \subseteq {STARTED}

\* C6: the statements of Close run in the order ForEach, Clear, Clear,
\* stateManager.Close, client.Close; every Closing delivery lies between
\* ForEach's snapshot and the first Clear; the listeners are called in the
\* order of the snapshot, and by the first Clear each listener of the
\* snapshot has received Closing exactly once.
C6_TeardownOrder ==
    /\ IsPrefix(StepsDone, CloseOrder)
    /\ IsPrefix(Delivered, broadcastSnap)
    /\ \A i \in 1..Len(teardownLog) :
          IsClosing(teardownLog[i]) =>
             /\ i > 1
             /\ \A j \in 1..(i - 1) : teardownLog[j][1] \in {"forEach", CLOSING}
    /\ Did("clearListeners") => Delivered = broadcastSnap

\* A teardown over two listeners ran to its end.
C6_Witness ==
    /\ Did("clientClose")
    /\ Len(broadcastSnap) = 2
    /\ Len(teardownLog) = 7

\* C7: once the Close that tore down has returned, the three listener
\* containers are empty.
C7_ContainersEmptyAfterClose ==
    TeardownReturned =>
        /\ listeners = <<>>
        /\ unhandledErrorListeners = <<>>
        /\ connListeners = <<>>

\* What Close returns for an outcome of c.client.Close()
ClientResult(outcome) == IF outcome = "err" THEN "errClient" ELSE "nil"

\* C8: the Close that tore down returns what c.client.Close() returned,
\* also when c.stateManager.Close() returned an error; the client has been
\* closed and c.state is STOPPED.
C8_CloseReturnsClientResult ==
    /\ (lastRet.op = "Close" /\ lastRet.won) => state = STOPPED
    /\ (lastRet.op = "Close" /\ lastRet.won /\ observe = "closeResult") =>
          /\ closeOutcomes.client # "none"
          /\ lastRet.val = ClientResult(closeOutcomes.client)
    /\ (TeardownReturned /\ closeOutcomes.sm = "err") =>
          closeOutcomes.client # "none"
    /\ (TeardownReturned /\ observe = "teardown") => Did("clientClose")

\* The state manager failed to close, the client closed, Close returned nil.
C8_Witness ==
    /\ closeOutcomes = [sm |-> "err", client |-> "nil"]
    /\ lastRet = [op |-> "Close", won |-> TRUE, val |-> "nil"]

\* C9: a raw event handed to the watcher while c.state is STARTED has been
\* delivered to every listener registered at that moment.  The callback is
\* synchronous and queues nothing: an event not delivered when the callback
\* has returned is never delivered.
C9_WatchedDelivered ==
    \A e \in handed :
        \A l \in CuratorListeners :
            <<l, e>> \in owed => <<l, e>> \in watchedDelivered

\* The broadcast of Closing is over
BroadcastOver ==
    state = STOPPED /\ \A t \in Threads : pc[t] \notin {"closeForEach", "closeDeliver"}

\* C10: once the broadcast of Closing is over, every error a listener
\* returned has been forwarded to the unhandled-error listeners registered
\* when it was returned, and the broadcast went on to the remaining listeners.
C10_ListenerErrorsForwarded ==
    BroadcastOver =>
        /\ Did("forEach") => Delivered = broadcastSnap
        /\ \A le \in listenerErrors :
              \A u \in Range(le[2]) : <<u, le[1]>> \in unhandledDelivered
\* The pass of Close's ForEach has made its last call
PassOver == passSnap # <<>> /\ ~PassUnderWay

\* C19: the pass of Close's ForEach calls exactly the listeners c.listeners
\* held when the pass began, in insertion order: the snapshot a thread walks
\* stays what it was taken as, whatever is added to or removed from the
\* container meanwhile; a listener added during the pass is not called in it,
\* and after a removal every listener of the snapshot is still called.
C19_ForEachSnapshot ==
    /\ IsPrefix(visited, passSnap)
    /\ \A t \in Threads :
          (pc[t] = "closeDeliver" /\ observe = "dispatch") =>
             /\ snap[t] = passSnap
             /\ visited = SubSeq(passSnap, 1, idx[t] - 1)
    /\ PassOver => visited = passSnap
    /\ \A c \in changed : c[1] = "add" => c[2] \notin Range(visited)
    /\ \A c \in changed : (c[1] = "remove" /\ PassOver) => c[2] \in Range(visited)

\* A pass over two listeners made both calls although each of them was removed
\* from the container before its call.
C19_Witness ==
    /\ PassOver
    /\ Len(passSnap) = 2
    /\ visited = passSnap
    /\ changed = {<<"remove", passSnap[1]>>, <<"remove", passSnap[2]>>}
\* The namespace a view rewrites paths with: 0 is the root facade
ViewNamespace(v) == IF v = 0 THEN namespace ELSE facades[v]

\* c.fixForNamespace(path, false), lines 345-347, on the view v: the server
\* path an operation through v on path addresses
ServerPath(v, path) == ViewPath(ViewNamespace(v), path)

\* C11: all calls of UsingNamespace(N) on the started facade return the same
\* facade, the one for N, and no two facades are ever constructed for one
\* namespace, however the calls of the threads interleave.
C11_OneFacadePerNamespace ==
    /\ \A g, h \in got : g[2] = h[2] => g[3] = h[3]
    /\ \A g \in got : g[3] \in 1..Len(facades) /\ facades[g[3]] = g[2]
    /\ \A i, j \in 1..Len(facades) : facades[i] = facades[j] => i = j

\* The facade one call constructed for "ns" was returned again to a later
\* call, while another thread is inside UsingNamespace("ns").
C11_Witness ==
    /\ \E i \in 1..Len(facades) :
          /\ <<"UsingNamespace", <<"ns">>, i, FALSE>> \in got
          /\ <<"UsingNamespace", <<"ns">>, i, TRUE>> \in got
    /\ \E t \in Threads :
          /\ pc[t] = "usingNamespace"
          /\ nsArg[t].newNamespace = <<"ns">>
\* The views handed out for the empty namespace or by NonNamespaceView
NonNamespaceViews ==
    {g[3] : g \in {h \in got : h[1] = "NonNamespaceView" \/ h[2] = NoNamespace}}

\* C12, as claimed: UsingNamespace("") and NonNamespaceView() return one
\* view, and an operation through it addresses, for every path, the server
\* path the same operation through the root facade addresses, whatever
\* namespace the root facade was built with.
C12_ViewEquivalentToRoot ==
    /\ Cardinality(NonNamespaceViews) <= 1
    /\ \A v \in NonNamespaceViews :
          \A path \in Paths : ServerPath(v, path) = ServerPath(0, path)

\* C12, amended: UsingNamespace("") and NonNamespaceView() return one view,
\* which has no namespace: an operation through it addresses the path it is
\* given.  That is the server path the root facade addresses when the root
\* was built without a namespace; a root built with the namespace R
\* addresses R/path instead.
C12_ViewWithoutNamespace ==
    /\ Cardinality(NonNamespaceViews) <= 1
    /\ \A v \in NonNamespaceViews :
          \A path \in Paths :
             /\ ServerPath(v, path) = path
             /\ namespace = NoNamespace =>
                    ServerPath(0, path) = ServerPath(v, path)
             /\ namespace # NoNamespace =>
                    /\ ServerPath(0, path) = namespace \o path
                    /\ ServerPath(0, path) # ServerPath(v, path)

\* Both methods returned the view without namespace of a root built with the
\* namespace "app".
C12_Witness ==
    /\ namespace = <<"app">>
    /\ \E v \in 1..Len(facades) :
          /\ <<"UsingNamespace", NoNamespace, v, FALSE>> \in got
          /\ <<"NonNamespaceView", NoNamespace, v, TRUE>> \in got
\* What is read back after a write: the data written, from the path it was
\* written to through the same view, and from namespace/path through a root
\* facade without namespace
RoundTripOfData ==
    /\ (lastRead # NoOp /\ lastRead.view = lastWrite.view
                        /\ lastRead.path = lastWrite.path) =>
           lastRead.data = lastWrite.data
    /\ (lastRead # NoOp /\ lastRead.view.root /\ namespace = NoNamespace
                        /\ lastRead.path = lastWrite.view.ns \o lastWrite.path) =>
           lastRead.data = lastWrite.data

\* C13: data written to a path through the facade of a namespace is read
\* back unchanged from that path through the same facade, and at
\* namespace/path through the root facade; and the path a Watched event
\* carries is the path the watch was set with, the namespace of the view
\* taken off, so that the listener never sees the prefix.
C13_NamespaceRoundTrip ==
    /\ RoundTripOfData
    /\ lastEvent # NoEvent => lastEvent.seen = lastEvent.path
\* C14: BlockUntilConnected waits as BlockUntilConnectedTimeout(0) does: it
\* sets no deadline and never returns a timeout error.  Every wait returns
\* success only while the ConnectionState is Connected or Reconnected, and a
\* timeout error only when a deadline was set and has passed without a
\* connection.  A waiting thread holds up no other: a thread that is idle
\* can begin its own call, and the state manager goes on taking the client's
\* events.
C14_BlockUntilConnected ==
    /\ \A t \in Threads :
          (pc[t] = "blocked" /\ wait[t].api = "BlockUntilConnected") =>
              wait[t].maxWaitTime = 0
    /\ lastWait.api = "BlockUntilConnected" => lastWait.result = "nil"
    /\ lastWait.result = "nil" => IsConnected(lastWait.conn)
    /\ lastWait.result = "timeout" =>
          /\ lastWait.maxWaitTime > 0
          /\ lastWait.left = 0
          /\ ~IsConnected(lastWait.conn)
    /\ \A t, u \in Threads :
          (pc[t] = "blocked" /\ pc[u] = "idle") =>
              /\ ENABLED BlockUntilConnected(u)
              /\ ENABLED Start(u)
    /\ \A t \in Threads :
          (pc[t] = "blocked" /\ clientRunning /\ posts < MaxPosts) =>
              \E raw \in RawSessionEvents : ENABLED AddStateChange(raw)

\* A BlockUntilConnected returned success on a reconnection while another
\* thread was still waiting with its deadline passed.
C14_Witness ==
    /\ lastWait.api = "BlockUntilConnected"
    /\ lastWait.result = "nil"
    /\ lastWait.conn = "Reconnected"
    /\ \E t \in Threads :
          /\ pc[t] = "blocked"
          /\ wait[t].maxWaitTime > 0
          /\ wait[t].left = 0

\* The numbers of the posts in a sequence of queued or delivered states
Numbers(q) == [i \in 1..Len(q) |-> q[i][1]]

\* C17: a post never waits for room: while the client runs the state manager
\* takes every change of state at once, whatever the queue holds.  The queue
\* never holds more than QueueSize states; what it holds are the newest
\* posts, so a post to a full queue has dropped the oldest one, and "state
\* missed" is raised once a post was dropped; the states delivered and
\* queued are in the order of their posts, and each post is delivered,
\* queued or dropped.
C17_BoundedQueueDropsOldest ==
    /\ Len(queue) <= QueueSize
    /\ Numbers(queue) = [i \in 1..Len(queue) |-> posts - Len(queue) + i]
    /\ (clientRunning /\ posts < MaxPosts) =>
          \A raw \in RawSessionEvents :
              Classify(raw, everConnected) # connState =>
                  ENABLED AddStateChange(raw)
    /\ observe = "queue" =>
          /\ LET all == Numbers(deliveries) \o Numbers(queue) IN
                \A i, j \in 1..Len(all) : i < j => all[i] < all[j]
          /\ Range(Numbers(deliveries)) \cup Range(Numbers(queue)) \cup dropped
                 = 1..posts
          /\ dropped \cap Range(Numbers(deliveries)) = {}
          /\ dropped # {} => missed
          /\ missed => dropped # {}

\* The first post was dropped from a full queue and the two after it were
\* delivered.
C17_Witness ==
    /\ missed
    /\ dropped = {1}
    /\ Numbers(deliveries) = <<2, 3>>

Runs == {t \in Threads : calls[t].phase # "none"}
Over(run) == run.phase = "done"

\* C15: RunWithRetry invokes the operation again only after a retriable error
\* (connection loss, operation timeout, session moved) and only if the
\* RetryPolicy allows it; a non-retriable error (bad path, version mismatch,
\* no-node, no-auth, node-exists) is returned to the caller after the one
\* attempt that met it, unchanged.
C15_RetryOnlyRetriable ==
    /\ [][\A t \in Threads :
            calls[t].attempt > 0 /\ calls'[t].attempt = calls[t].attempt + 1
              => /\ calls[t].err \in Retriable
                 /\ AllowRetry(calls[t].attempt,
                               Sum(SubSeq(calls[t].sleeps, 1,
                                          calls[t].attempt - 1))).retry]_vars
    /\ [](\A t \in Runs :
            /\ calls[t].phase = "sleeping" => calls[t].err \in Retriable
            /\ calls[t].err \in Terminal
                 => /\ Over(calls[t])
                    /\ calls[t].ret = [err |-> calls[t].err, attempts |-> 0,
                                       exhausted |-> FALSE]
            /\ calls[t].attempt = 1 /\ calls[t].err \in Terminal
                 => calls[t].sleeps = <<>>)

\* One caller has a non-retriable error back from its first attempt, another
\* from the attempt after a retry.
C15_Witness ==
    \E t, u \in Threads :
        /\ calls[t].phase = "done" /\ calls[t].attempt = 1
        /\ calls[t].ret.err = "no-node"
        /\ calls[u].phase = "done" /\ calls[u].attempt = 2
        /\ calls[u].ret.err = "version mismatch"

NonDecreasing(q) == \A i \in 1..Len(q) - 1 : q[i] <= q[i + 1]

\* C16: under a RetryPolicy bounded to 3 attempts, a RunWithRetry whose every
\* attempt fails with a retriable error terminates: it makes exactly 3
\* attempts, no sleep is shorter than the one before it, and it returns a
\* retry-exhausted error that carries the count of the attempts.
C16_BoundedRetryTerminates ==
    /\ [](\A t \in Runs :
            /\ calls[t].attempt <= MaxAttempts
            /\ NonDecreasing(calls[t].sleeps)
            /\ ~Over(calls[t]) => calls[t].attempt < MaxAttempts
            /\ Over(calls[t]) /\ calls[t].err \in Retriable
                 => /\ calls[t].attempt = MaxAttempts
                    /\ Len(calls[t].sleeps) = MaxAttempts - 1
                    /\ calls[t].ret = [err |-> calls[t].err,
                                       attempts |-> MaxAttempts,
                                       exhausted |-> TRUE])
    /\ \A t \in Threads : (calls[t].phase = "running") ~> Over(calls[t])

\* A call returned the retry-exhausted error after three attempts with the
\* sleeps 1 and 2 between them.
C16_Witness ==
    \E t \in Threads :
        /\ calls[t].phase = "done"
        /\ calls[t].ret = [err |-> "connection loss", attempts |-> 3,
                           exhausted |-> TRUE]
        /\ calls[t].sleeps = <<1, 2>>

NoDuplicates(q) == \A i, j \in 1..Len(q) : q[i] = q[j] => i = j

\* C20: for one background builder invocation each registered CuratorListener
\* receives the result CuratorEvent at most once, also when the operation
\* was retried, and the event carries the context the caller gave; ForPath
\* returns without the error of the operation, which is in the error field
\* of the event only.
C20_BackgroundResultOnce ==
    \A i \in 1..Len(tasks) :
        /\ NoDuplicates(tasks[i].delivered)
        /\ tasks[i].returned = "nil"
        /\ tasks[i].run.phase # "done"
             => tasks[i].delivered = <<>> /\ tasks[i].event = NoCuratorEvent
        /\ tasks[i].run.phase = "done"
             => tasks[i].event = [type |-> SYNC, context |-> tasks[i].given,
                                  err |-> tasks[i].run.ret.err]

\* A background operation that was retried and failed: its event, with the
\* context of the caller and the error, reached both listeners once.
C20_Witness ==
    \E i \in 1..Len(tasks) :
        /\ tasks[i].run.attempt > 1
        /\ tasks[i].event = [type |-> SYNC, context |-> "ctx2",
                             err |-> "no-node"]
        /\ tasks[i].given = "ctx2"
        /\ Len(tasks[i].delivered) = 2

\* No Start and no Close is in progress
Quiescent == \A t \in Threads : pc[t] \notin StartPcs \cup ClosePcs

\* C23: when the facade is Stopped and no Start or Close call is still in
\* progress, the state manager and the client are not running.
C23_StoppedMeansNotRunning ==
    state = STOPPED /\ Quiescent => ~smRunning /\ ~clientRunning

\* A Start has returned the failure of a component
StartHasFailed == startFailed.component # "none"

\* C24: a Start that returns an error because the state manager or the client
\* failed to start does not roll the lifecycle back: c.state is left as it
\* is and never LATENT again, the builder factories are usable while it is
\* STARTED, every later Start returns the "started more than once" error,
\* when the state manager failed the client is never started, and a Close
\* called after it still tears down and moves the state to STOPPED.
C24_FailedStartNotRolledBack ==
    /\ [][/\ startFailed' # startFailed
               => state' = state /\ startFailed'.st = state
          /\ StartHasFailed /\ lastRet' # lastRet /\ lastRet'.op = "Start"
               => lastRet' = [op |-> "Start", won |-> FALSE,
                              val |-> "errStartedTwice"]]_vars
    /\ [](StartHasFailed =>
            /\ state # LATENT
            /\ \A t \in Threads : pc[t] \notin StartPcs
            /\ startFailed.component = "stateManager" => ~clientRunning
            /\ \A t \in Threads :
                 state = STARTED /\ pc[t] = "idle"
                   => /\ ENABLED (Factory(t, "builder") /\ pc'[t] = "builder")
                      /\ ENABLED (Close(t) /\ state' = STOPPED
                                    /\ pc'[t] = "closeForEach")
            /\ startFailed.st = STARTED /\ state = STOPPED /\ Quiescent
                 => ~smRunning /\ ~clientRunning)

\* The state manager failed to start, a later Start was refused, and a Close
\* called after that has torn the facade down.
C24_Witness ==
    /\ startFailed = [component |-> "stateManager", st |-> STARTED]
    /\ lastRet = [op |-> "Start", won |-> FALSE, val |-> "errStartedTwice"]
    /\ state = STOPPED
    /\ Quiescent
    /\ ~smRunning /\ ~clientRunning

\* C25: Close called while c.state is LATENT changes nothing: the state stays
\* LATENT, no Closing event is broadcast, no container is cleared, neither
\* component is closed, the call returns nil, and a later Start still
\* succeeds.
C25_CloseWhileLatent ==
    /\ [][\A t \in Threads :
            Close(t) /\ state = LATENT
              => /\ UNCHANGED <<state, smRunning, clientRunning, containers,
                                locals>>
                 /\ closedLatent' = "nil"]_vars
    /\ [](closedLatent = "nil" /\ state = LATENT
            => /\ ~smRunning /\ ~clientRunning
               /\ \A t \in Threads :
                    /\ pc[t] \notin ClosePcs
                    /\ pc[t] = "idle"
                         => ENABLED (Start(t) /\ state' = STARTED
                                       /\ pc'[t] = "startStateManager"))

\* A Close was called on the facade before it was started, and a later Start
\* has started both components and returned nil.
C25_Witness ==
    /\ closedLatent = "nil"
    /\ lastRet = [op |-> "Start", won |-> TRUE, val |-> "nil"]
    /\ state = STARTED
    /\ smRunning /\ clientRunning
    /\ listeners # <<>>

\* C21: Delete, SetData and SetACL of a builder as the facade returns it
\* (version -1) succeed on every existing node whatever its version; with a
\* version set that differs from the node's the call fails with a version
\* mismatch and the node's data, ACL, version and existence are unchanged.
C21_VersionedMutations ==
    LET m == lastMutation IN
    m.op # "none" /\ m.before.exists =>
        /\ ~m.explicit
             => /\ m.version = AnyVersion
                /\ m.result = "nil"
                /\ m.op = "Delete" => ~m.after.exists
                /\ m.op # "Delete"
                     => /\ m.after.exists
                        /\ m.after.version = m.before.version + 1
        /\ m.explicit /\ m.version # m.before.version
             => m.result = "version mismatch" /\ m.after = m.before

\* A SetACL that asked for version 0 of a node at version 1 failed with a
\* version mismatch.
C21_Witness ==
    /\ lastMutation.op = "SetACL"
    /\ lastMutation.explicit
    /\ lastMutation.version = 0
    /\ lastMutation.before.version = 1
    /\ lastMutation.result = "version mismatch"
    /\ lastMutation.after = lastMutation.before
    /\ znode = lastMutation.before

\* The sync launched last
Launched == tasks[Len(tasks)]

\* C22: a sync is always executed in the background: Sync().ForPath and
\* DoSync(path, context) return to the caller without waiting for the sync to
\* complete, whether or not a background mode was selected, and the
\* completion is delivered as a SYNC CuratorEvent with the caller's context.
C22_SyncInBackground ==
    /\ [][\A t \in Threads :
            /\ state = STARTED
            /\ SyncForPath(t) \/ \E context \in Contexts : DoSync(t, context)
            => /\ pc' = pc
               /\ Len(tasks') = Len(tasks) + 1
               /\ tasks'[Len(tasks')].returned = "nil"
               /\ tasks'[Len(tasks')].run.phase = "running"]_vars
    /\ [](\A i \in 1..Len(tasks) :
            tasks[i].run.phase = "done"
              => /\ tasks[i].event.type = SYNC
                 /\ tasks[i].event.context = tasks[i].given
                 /\ tasks[i].event.err = tasks[i].run.ret.err)
    /\ \A i \in 1..MaxBackground :
         (Len(tasks) >= i) ~> (Len(tasks) >= i /\ tasks[i].run.phase = "done")

\* A sync launched by Sync().ForPath with no background mode is under way
\* while every thread is free to go on.
C22_Witness ==
    /\ tasks # <<>>
    /\ Launched.given = NoContext
    /\ Launched.run.phase = "sleeping"
    /\ Launched.returned = "nil"
    /\ \A t \in Threads : pc[t] = "idle"

====
